---- MODULE Spec2Model ----
(***************************************************************************)
(* A model of ng_link: NgLayer (ng_layer.py) builds one neuroglancer layer *)
(* state from a layer description, NgState (ng_state.py) assembles the     *)
(* document and derives the viewer link.                                   *)
(*                                                                         *)
(* Python strings that the code inspects character by character (paths,    *)
(* urls, names) are sequences of one-character strings.  Python dicts are  *)
(* sequences of <<key, value>> pairs in insertion order.  An operation     *)
(* that can raise yields Ok(value) or Raise(exception).                    *)
(***************************************************************************)
EXTENDS Integers, Sequences, FiniteSets, TLC

VARIABLES
    m_args,     \* arguments of the helper_create_ng_translation_matrix call
    m_result,   \* what that call produced: a matrix or the error it raised
    mount_service, bucket_path, shared_dimensions,  \* arguments of NgLayer(...)
    r_in,       \* the source handed to the last source resolution
    r_out,      \* what the resolution produced
    r_first,    \* the source a chain of resolutions started from
    image_config,   \* the caller's layer description (a dict the code mutates)
    given_config,   \* the description as the caller wrote it
    layer,      \* the NgLayer object
    builds,     \* number of NgLayer constructions from image_config
    l_call,     \* the last operation on the layer, its argument and outcome
    input_config,   \* the description handed to NgState
    ng_args,    \* the other arguments of NgState(...)
    ng,         \* the NgState object
    ng_call,    \* the last operation on the NgState, its argument and outcome
    ng_sets,    \* number of assignments made to attributes of the NgState
    doc         \* the document last read from NgState.state or last saved

vars == <<m_args, m_result, mount_service, bucket_path, shared_dimensions,
          r_in, r_out, r_first, image_config, given_config, layer, builds,
          l_call, input_config, ng_args, ng, ng_call, ng_sets, doc>>

matrix_vars == <<m_args, m_result>>
source_vars == <<mount_service, bucket_path, shared_dimensions, r_in, r_out, r_first>>
layer_vars  == <<image_config, given_config, layer, builds, l_call>>
state_vars  == <<input_config, ng_args, ng, ng_call, ng_sets, doc>>

----------------------------------------------------------------------------
(* Bounds of the model *)

MaxRows == 6
MaxCols == 7
MaxTiles == 2
MaxBuilds == 2
MaxChannel == 2
MaxSets == 2

----------------------------------------------------------------------------
(* Outcomes of an operation: a value or the exception it raised *)

\* detail is the value an exception's message shows, if it shows one
Ok(v)    == [ok |-> TRUE, value |-> v, error |-> "none", detail |-> <<>>]
Raise(e) == [ok |-> FALSE, value |-> <<>>, error |-> e, detail |-> <<>>]
\* the exception e, raised by a setter that leaves the attribute holding v
RaiseWith(e, v) == [ok |-> FALSE, value |-> v, error |-> e, detail |-> <<>>]
\* the same, with a message that shows the value shown
RaiseAbout(e, v, shown) ==
    [ok |-> FALSE, value |-> v, error |-> e, detail |-> <<shown>>]

\* continue with F on the value of r, or propagate the exception of r
Then(r, F(_)) == IF r.ok THEN F(r.value) ELSE r

----------------------------------------------------------------------------
(* Strings *)

Str_S3      == <<"s", "3">>
Str_GS      == <<"g", "s">>
Str_SchemeSep == <<":", "/", "/">>
Str_Zarr    == <<".", "z", "a", "r", "r">>
Str_ZarrTag == <<"z", "a", "r", "r", ":", "/", "/">>
Str_Tif     == <<".", "t", "i", "f">>
Str_Slash   == <<"/">>
Str_Dot     == <<".">>

StartsWith(s, p) == Len(s) >= Len(p) /\ SubSeq(s, 1, Len(p)) = p
EndsWith(s, p)   == Len(s) >= Len(p) /\ SubSeq(s, Len(s) - Len(p) + 1, Len(s)) = p

\* str.replace(old, new): every non-overlapping occurrence, left to right
RECURSIVE Replace(_, _, _)
Replace(s, old, new) ==
    IF s = <<>> THEN <<>>
    ELSE IF StartsWith(s, old)
         THEN new \o Replace(SubSeq(s, Len(old) + 1, Len(s)), old, new)
         ELSE <<Head(s)>> \o Replace(Tail(s), old, new)

\* the position of the first "/" of s, Len(s) + 1 when there is none
FirstSlash(s) ==
    IF \A i \in 1..Len(s) : s[i] # "/" THEN Len(s) + 1
    ELSE CHOOSE k \in 1..Len(s) : s[k] = "/" /\ \A j \in 1..(k - 1) : s[j] # "/"

\* str.split("/")
RECURSIVE SplitSlash(_)
SplitSlash(s) ==
    IF FirstSlash(s) > Len(s) THEN <<s>>
    ELSE <<SubSeq(s, 1, FirstSlash(s) - 1)>>
         \o SplitSlash(SubSeq(s, FirstSlash(s) + 1, Len(s)))

\* "/".join(parts)
RECURSIVE JoinSlash(_)
JoinSlash(parts) ==
    IF parts = <<>> THEN <<>>
    ELSE IF Len(parts) = 1 THEN parts[1]
    ELSE parts[1] \o Str_Slash \o JoinSlash(Tail(parts))

\* str(int)
Digit(d) == CASE d = 0 -> "0" [] d = 1 -> "1" [] d = 2 -> "2" [] d = 3 -> "3"
              [] d = 4 -> "4" [] d = 5 -> "5" [] d = 6 -> "6" [] d = 7 -> "7"
              [] d = 8 -> "8" [] d = 9 -> "9"

RECURSIVE NatToStr(_)
NatToStr(n) == IF n < 10 THEN <<Digit(n)>>
               ELSE NatToStr(n \div 10) \o <<Digit(n % 10)>>

IntToStr(n) == IF n < 0 THEN <<"-">> \o NatToStr(0 - n) ELSE NatToStr(n)

\* the number a string of decimal digits writes
IsDigits(s) == s # <<>> /\ \A i \in 1..Len(s) : \E d \in 0..9 : s[i] = Digit(d)
DigitValue(c) == CHOOSE d \in 0..9 : Digit(d) = c
RECURSIVE StrToNat(_)
StrToNat(s) ==
    IF s = <<>> THEN 0
    ELSE 10 * StrToNat(SubSeq(s, 1, Len(s) - 1)) + DigitValue(s[Len(s)])

----------------------------------------------------------------------------
(* pathlib.Path on a POSIX build *)

\* the root of Path(s): exactly two leading slashes are kept, any other
\* number of them is one
PathRoot(s) ==
    IF StartsWith(s, <<"/", "/">>) /\ ~StartsWith(s, <<"/", "/", "/">>)
    THEN <<"/", "/">>
    ELSE IF StartsWith(s, Str_Slash) THEN Str_Slash ELSE <<>>

\* the components of Path(s): empty and "." components are dropped
IsComponent(c) == c # <<>> /\ c # Str_Dot
PathParts(s) == SelectSeq(SplitSlash(s), IsComponent)

\* str(Path(s))
PathText(root, body) == IF root = <<>> /\ body = <<>> THEN Str_Dot ELSE root \o body
PathStr(s) == PathText(PathRoot(s), JoinSlash(PathParts(s)))

\* Path(s).name
LastOf(parts) == IF parts = <<>> THEN <<>> ELSE parts[Len(parts)]
PathName(s) == LastOf(PathParts(s))

\* the position of the last "." of name, 0 when there is none
LastDot(name) ==
    IF \A i \in 1..Len(name) : name[i] # "." THEN 0
    ELSE CHOOSE k \in 1..Len(name) :
             name[k] = "." /\ \A j \in (k + 1)..Len(name) : name[j] # "."

\* Path(s).stem: the name without its last suffix
StemOfName(name, i) ==
    IF 1 < i /\ i < Len(name) THEN SubSeq(name, 1, i - 1) ELSE name
PathStem(s) == StemOfName(PathName(s), LastDot(PathName(s)))

\* str(Path(a).joinpath(b)), for a relative b
PathJoin(a, b) == PathStr(PathStr(a) \o Str_Slash \o b)

----------------------------------------------------------------------------
(* numpy.float16 *)

\* the encoding of float('inf') in a matrix entry
F16Inf == 1000000

RECURSIVE Pow2(_)
Pow2(n) == IF n = 0 THEN 1 ELSE 2 * Pow2(n - 1)

\* the exponent e with 2^e <= a < 2^(e+1), for a >= 1
RECURSIVE Log2(_)
Log2(a) == IF a < 2 THEN 0 ELSE 1 + Log2(a \div 2)

\* the spacing of float16 values around a: 11 significant bits
Ulp(a) == IF Log2(a) > 10 THEN Pow2(Log2(a) - 10) ELSE 1

\* round to nearest, ties to even
RoundHalfEven(a, ulp) ==
    IF 2 * (a % ulp) > ulp \/ (2 * (a % ulp) = ulp /\ (a \div ulp) % 2 = 1)
    THEN ((a \div ulp) + 1) * ulp
    ELSE (a \div ulp) * ulp

\* values past the largest finite float16 (65504) become infinity
Overflow16(mag) == IF mag >= 65536 THEN F16Inf ELSE mag

\* an integer stored into a float16 array
Float16(x) ==
    IF x = 0 THEN 0
    ELSE IF x < 0 THEN 0 - Overflow16(RoundHalfEven(0 - x, Ulp(0 - x)))
    ELSE Overflow16(RoundHalfEven(x, Ulp(x)))

----------------------------------------------------------------------------
(* helper_create_ng_translation_matrix *)

DefaultCols == 6
DefaultRows == 5

\* np.zeros((n_rows, n_cols)) followed by np.fill_diagonal(., 1)
IdentityMatrix(n_rows, n_cols) ==
    [i \in 1..n_rows |-> [j \in 1..n_cols |-> IF i = j THEN 1 ELSE 0]]

\* the loop of lines 61-63: the k-th delta goes to row start_point - (k-1),
\* last column; rows are numbered from 1 here
RECURSIVE WriteDeltas(_, _, _, _)
WriteDeltas(matrix, deltas, start_point, n_cols) ==
    IF deltas = <<>> THEN matrix
    ELSE WriteDeltas(
            [matrix EXCEPT ![start_point + 1][n_cols] = Float16(Head(deltas))],
            Tail(deltas), start_point - 1, n_cols)

\* a variant whose guard compares with one less than the number of deltas
BadGuardTranslationMatrix(delta_x, delta_y, delta_z, n_cols, n_rows) ==
    IF n_rows - 1 < Len(<<delta_x, delta_y, delta_z>>) - 1
    THEN Raise("ValueError")
    ELSE Ok(WriteDeltas(IdentityMatrix(n_rows, n_cols),
                        <<delta_x, delta_y, delta_z>>, n_rows - 1, n_cols))

helper_create_ng_translation_matrix(delta_x, delta_y, delta_z, n_cols, n_rows) ==
    IF n_rows - 1 < Len(<<delta_x, delta_y, delta_z>>)
    THEN Raise("ValueError")
    ELSE Ok(WriteDeltas(IdentityMatrix(n_rows, n_cols),
                        <<delta_x, delta_y, delta_z>>, n_rows - 1, n_cols))

----------------------------------------------------------------------------
(* Python values held by dicts: one record shape for every kind of value *)

V_None == [kind |-> "none", s |-> <<>>, d |-> <<>>, m |-> <<>>, od |-> <<>>,
           n |-> 0, b |-> FALSE, tiles |-> <<>>]
V_Str(s)      == [V_None EXCEPT !.kind = "str", !.s = s]
V_Int(n)      == [V_None EXCEPT !.kind = "int", !.n = n]
V_Bool(b)     == [V_None EXCEPT !.kind = "bool", !.b = b]
\* a float, in hundredths
V_Float(n)    == [V_None EXCEPT !.kind = "float", !.n = n]
\* {}
V_EmptyDict   == [V_None EXCEPT !.kind = "dict"]
\* {"delta_x": dx, "delta_y": dy, "delta_z": dz}
V_Deltas(dx, dy, dz) == [V_None EXCEPT !.kind = "dict", !.d = <<dx, dy, dz>>]
\* a list of rows
V_List(m)     == [V_None EXCEPT !.kind = "list", !.m = m]
\* {"matrix": m, "outputDimensions": od}
V_Transform(m, od) == [V_None EXCEPT !.kind = "transform", !.m = m, !.od = od]
\* a list of tile dicts
V_Tiles(ts)   == [V_None EXCEPT !.kind = "tiles", !.tiles = ts]
\* {"normalized": {"range": [lo, hi]}}
V_Controls(lo, hi) == [V_None EXCEPT !.kind = "controls", !.d = <<lo, hi>>]
\* {"color": color, "emitter": emitter, "vec": vec}
V_Shader(color, emitter, vec) ==
    [V_None EXCEPT !.kind = "shader", !.s = <<color, emitter, vec>>]
\* {"c'": [n, ""]}
V_LocalDimensions(n) == [V_None EXCEPT !.kind = "localDimensions", !.n = n]
\* a dict of axes: <<axis, <<voxel_size, unit>>>> pairs
V_Axes(od)    == [V_None EXCEPT !.kind = "axes", !.od = od]
\* a list of layer descriptions, or of layer states
V_Layers(ls)  == [V_None EXCEPT !.kind = "layers", !.tiles = ls]

\* dict operations on sequences of <<key, value>> pairs
DictHas(dict, key) == \E i \in 1..Len(dict) : dict[i][1] = key
DictGet(dict, key) == dict[CHOOSE i \in 1..Len(dict) : dict[i][1] = key][2]
DictSet(dict, key, value) ==
    IF DictHas(dict, key)
    THEN [i \in 1..Len(dict) |->
            IF dict[i][1] = key THEN <<key, value>> ELSE dict[i]]
    ELSE Append(dict, <<key, value>>)

----------------------------------------------------------------------------
(* helper_reverse_dictionary *)

\* a helper that returns the items in the order it finds them
KeepOrderDictionary(dictionary) ==
    [i \in 1..Len(dictionary) |-> dictionary[i]]

helper_reverse_dictionary(dictionary) ==
    [i \in 1..Len(dictionary) |-> dictionary[Len(dictionary) - i + 1]]

----------------------------------------------------------------------------
(* NgLayer.__set_s3_path, __set_sources_paths, __fix_image_source *)

\* lines 160-167: the storage prefix is added unless already there
S3Path(orig_source_path, mount, bucket) ==
    IF ~StartsWith(orig_source_path, mount \o Str_SchemeSep)
    THEN mount \o Str_SchemeSep \o bucket \o Str_Slash \o PathStr(orig_source_path)
    ELSE orig_source_path

\* a variant that tags a path of any suffix
AnySuffixTagZarr(s3_path) == Ok(Str_ZarrTag \o s3_path)

\* lines 169-175: the format tag, or the error
TagZarr(s3_path) ==
    IF EndsWith(s3_path, Str_Zarr)
    THEN Ok(Str_ZarrTag \o s3_path)
    ELSE Raise("NotImplementedError")

\* a variant that prepends scheme and bucket to every path
AlwaysPrefixSetS3Path(orig_source_path, mount, bucket) ==
    TagZarr(mount \o Str_SchemeSep \o bucket \o Str_Slash
            \o PathStr(orig_source_path))

SetS3Path(orig_source_path, mount, bucket) ==
    TagZarr(S3Path(orig_source_path, mount, bucket))

UrlEntry(url) == Ok(<<"url", V_Str(url)>>)

\* what one key of a tile contributes: <<key of new_dict, value>>
\* (lines 203-227)
TileEntry(key, value, mount, bucket, out_dims) ==
    IF key = "transform_matrix" /\ value.kind = "dict"
    THEN Ok(<<"transform",
              V_Transform(
                  helper_create_ng_translation_matrix(
                      value.d[1], value.d[2], value.d[3],
                      DefaultCols, DefaultRows).value,
                  out_dims)>>)
    ELSE IF key = "transform_matrix" /\ value.kind = "list"
    THEN Ok(<<"transform", V_Transform(value.m, out_dims)>>)
    ELSE IF key = "url"
    THEN Then(SetS3Path(value.s, mount, bucket), UrlEntry)
    ELSE Ok(<<key, value>>)

\* the loop over source.keys() of lines 202-227
RECURSIVE ConvertTile(_, _, _, _, _)
ConvertTile(pairs, new_dict, mount, bucket, out_dims) ==
    IF pairs = <<>> THEN Ok(new_dict)
    ELSE Then(TileEntry(pairs[1][1], pairs[1][2], mount, bucket, out_dims),
              LAMBDA e : ConvertTile(Tail(pairs), DictSet(new_dict, e[1], e[2]),
                                     mount, bucket, out_dims))

\* the loop over sources_paths of lines 199-229
RECURSIVE SetSourcesPaths(_, _, _, _)
SetSourcesPaths(sources_paths, mount, bucket, out_dims) ==
    IF sources_paths = <<>> THEN Ok(<<>>)
    ELSE Then(ConvertTile(Head(sources_paths), <<>>, mount, bucket, out_dims),
              LAMBDA t :
                  Then(SetSourcesPaths(Tail(sources_paths), mount, bucket,
                                       out_dims),
                       LAMBDA rest : Ok(<<t>> \o rest)))

TilesValue(ts) == Ok(V_Tiles(ts))
StrValue(s)    == Ok(V_Str(s))

\* the resolved source, or the exception raised
FixImageSource(source_path, mount, bucket, out_dims) ==
    IF source_path.kind = "tiles"
    THEN Then(SetSourcesPaths(source_path.tiles, mount, bucket, out_dims),
              TilesValue)
    ELSE IF source_path.kind = "str"
    THEN Then(SetS3Path(source_path.s, mount, bucket), StrValue)
    ELSE Ok(V_None)

----------------------------------------------------------------------------
(* Python's conversions int(), float(), bool(), dict() on a value *)

\* integer division truncating toward zero
TruncDiv(a, b) == IF a < 0 THEN 0 - ((0 - a) \div b) ELSE a \div b

ToInt(v) ==
    CASE v.kind = "int"   -> Ok(v.n)
      [] v.kind = "bool"  -> Ok(IF v.b THEN 1 ELSE 0)
      [] v.kind = "float" -> Ok(TruncDiv(v.n, 100))
      [] v.kind = "str"   -> Raise("ValueError")
      [] OTHER            -> Raise("TypeError")

ToFloat(v) ==
    CASE v.kind = "int"   -> Ok(V_Float(100 * v.n))
      [] v.kind = "bool"  -> Ok(V_Float(IF v.b THEN 100 ELSE 0))
      [] v.kind = "float" -> Ok(v)
      [] v.kind = "str"   -> IF IsDigits(v.s)
                             THEN Ok(V_Float(100 * StrToNat(v.s)))
                             ELSE Raise("ValueError")
      [] OTHER            -> Raise("TypeError")

ToBool(v) ==
    CASE v.kind = "none"  -> FALSE
      [] v.kind = "bool"  -> v.b
      [] v.kind \in {"int", "float"} -> v.n # 0
      [] v.kind = "str"   -> v.s # <<>>
      [] v.kind = "list"  -> v.m # <<>>
      [] v.kind \in {"tiles", "layers"} -> v.tiles # <<>>
      [] v.kind = "axes"  -> v.od # <<>>
      [] OTHER            -> TRUE

ToDict(v) ==
    CASE v.kind \in {"controls", "dict", "shader", "transform",
                     "localDimensions"} -> Ok(v)
      [] v.kind = "str" -> IF v.s = <<>> THEN Ok(V_EmptyDict)
                           ELSE Raise("ValueError")
      [] v.kind = "list" ->
             IF \A i \in 1..Len(v.m) : Len(v.m[i]) = 2
             THEN Ok([V_EmptyDict EXCEPT !.d = v.m])
             ELSE Raise("ValueError")
      [] OTHER          -> Raise("TypeError")

----------------------------------------------------------------------------
(* NgLayer: shader text, setters, update_state, set_default_values *)

\* a variant that always emits RGB
RgbOnlyCreateShader(shader_config) ==
    IF shader_config.kind # "shader" THEN Raise("TypeError")
    ELSE Ok(<<"#uicontrol ", shader_config.s[3], " color color(default=\"",
              shader_config.s[1], "\")", "\n",
              "#uicontrol invlerp normalized", "\n",
              "void main() {", "\n", "emit", "RGB",
              "(color * normalized());", "\n", "}">>)

\* the shader text, as the sequence of the pieces the code joins: each
\* interpolated value is one piece, each newline is one piece
CreateShader(shader_config) ==
    IF shader_config.kind # "shader" THEN Raise("TypeError")
    ELSE Ok(<<"#uicontrol ", shader_config.s[3], " color color(default=\"",
              shader_config.s[1], "\")", "\n",
              "#uicontrol invlerp normalized", "\n",
              "void main() {", "\n", "emit", shader_config.s[2],
              "(color * normalized());", "\n", "}">>)

\* the dict that a localDimensions value is: {"c'": [n, ""]} (line 527)
LocalDimensionsItems(local_dimensions) ==
    << <<<<"c", "'">>, <<local_dimensions.n, "">>>> >>

\* self.__layer_state["localDimensions"]["c"] (line 509)
GetImageChannel(layer_state) ==
    IF ~DictHas(layer_state, "localDimensions") THEN Raise("KeyError")
    ELSE IF ~DictHas(LocalDimensionsItems(
                         DictGet(layer_state, "localDimensions")), <<"c">>)
    THEN Raise("KeyError")
    ELSE Ok(DictGet(LocalDimensionsItems(
                        DictGet(layer_state, "localDimensions")), <<"c">>))

\* a variant of the channel setter that stores the channel as given
NoIncrementSetImageChannel(layer_state, channel) ==
    Then(ToInt(channel),
         LAMBDA c : Ok(DictSet(layer_state, "localDimensions",
                               V_LocalDimensions(c))))

\* the setters: the new layer state, or the exception raised
SetImageChannel(layer_state, channel) ==
    Then(ToInt(channel),
         LAMBDA c : Ok(DictSet(layer_state, "localDimensions",
                               V_LocalDimensions(c + 1))))

SetShaderControl(layer_state, shader_control_config) ==
    Then(ToDict(shader_control_config),
         LAMBDA d : Ok(DictSet(layer_state, "shaderControls", d)))

SetVisible(layer_state, visible) ==
    Ok(DictSet(layer_state, "visible", V_Bool(ToBool(visible))))

SetOpacity(layer_state, opacity) ==
    Then(ToFloat(opacity), LAMBDA f : Ok(DictSet(layer_state, "opacity", f)))

SetShader(layer_state, shader_config) ==
    Then(CreateShader(shader_config),
         LAMBDA t : Ok(DictSet(layer_state, "shader", V_Str(t))))

\* one iteration of the loop of update_state (lines 342-367)
ApplyParam(layer_state, param, value) ==
    CASE param \in {"type", "name", "blend"} ->
             Ok(DictSet(layer_state, param, value))
      [] param = "visible"        -> SetVisible(layer_state, value)
      [] param = "shader"         -> SetShader(layer_state, value)
      [] param = "channel"        -> SetImageChannel(layer_state, value)
      [] param = "shaderControls" -> SetShaderControl(layer_state, value)
      [] param = "opacity"        -> SetOpacity(layer_state, value)
      [] param = "source" /\ value.kind \in {"str", "tiles"} ->
             Ok(DictSet(layer_state, param, value))
      [] OTHER -> Ok(layer_state)

RECURSIVE ApplyParams(_, _)
ApplyParams(layer_state, items) ==
    IF items = <<>> THEN Ok(layer_state)
    ELSE Then(ApplyParam(layer_state, items[1][1], items[1][2]),
              LAMBDA ls : ApplyParams(ls, Tail(items)))

\* the stem the default name starts with (lines 302-310)
SourceStem(image_source) ==
    IF image_source.kind = "str" THEN Ok(PathStem(image_source.s))
    ELSE IF image_source.kind # "tiles" THEN Raise("TypeError")
    ELSE IF image_source.tiles = <<>> THEN Raise("IndexError")
    ELSE IF ~DictHas(image_source.tiles[1], "url") THEN Raise("KeyError")
    ELSE Ok(PathStem(DictGet(image_source.tiles[1], "url").s))

\* the channel text of the default name (lines 296-300): what
\* localDimensions holds, or "" when the layer state has none
NameChannel(layer_state) ==
    IF DictHas(layer_state, "localDimensions")
    THEN IntToStr(DictGet(layer_state, "localDimensions").n)
    ELSE <<>>

Str_Image == <<"image">>
DefaultControls == V_Controls(0, 200)

\* set_default_values(image_config) with overwrite = False, one field at a
\* time (lines 283-313)
DefaultChannel(layer_state, config) ==
    IF ~DictHas(config, "channel")
    THEN SetImageChannel(layer_state, V_Int(0)).value
    ELSE layer_state

DefaultShaderControl(layer_state, config) ==
    IF ~DictHas(config, "shaderControls")
    THEN SetShaderControl(layer_state, DefaultControls).value
    ELSE layer_state

\* a variant that sets the default whether or not the key was given
AlwaysDefaultVisible(layer_state, config) ==
    SetVisible(layer_state, V_Bool(TRUE)).value

DefaultVisible(layer_state, config) ==
    IF ~DictHas(config, "visible")
    THEN SetVisible(layer_state, V_Bool(TRUE)).value
    ELSE layer_state

DefaultName(layer_state, config, image_source) ==
    IF ~DictHas(config, "name")
    THEN Then(SourceStem(image_source),
              LAMBDA stem :
                  Ok(DictSet(layer_state, "name",
                             V_Str(stem \o <<"_">> \o NameChannel(layer_state)))))
    ELSE Ok(layer_state)

DefaultType(layer_state, config, image_type) ==
    IF ~DictHas(config, "type")
    THEN DictSet(layer_state, "type", V_Str(image_type))
    ELSE layer_state

SetDefaultValues(layer_state, config, image_source, image_type) ==
    IF config = <<>> THEN Ok(layer_state)
    ELSE Then(DefaultName(
                  DefaultVisible(
                      DefaultShaderControl(
                          DefaultChannel(layer_state, config), config), config),
                  config, image_source),
              LAMBDA ls : Ok(DefaultType(ls, config, image_type)))

UpdateState(layer_state, config, image_source, image_type) ==
    Then(ApplyParams(layer_state, config),
         LAMBDA ls : SetDefaultValues(ls, config, image_source, image_type))

----------------------------------------------------------------------------
(* NgLayer.__init__ *)

NoLayer == [alive |-> FALSE, error |-> "none", layer_state |-> <<>>,
            image_source |-> V_None, output_dimensions |-> <<>>]

FailedLayer(e) == [NoLayer EXCEPT !.error = e]

\* the object, once update_state has returned or raised
LayerOf(st, image_source, out_dims) ==
    IF st.ok
    THEN [alive |-> TRUE, error |-> "none", layer_state |-> st.value,
          image_source |-> image_source, output_dimensions |-> out_dims]
    ELSE FailedLayer(st.error)

\* lines 133-136, on the outcome of __fix_image_source
BuildWithSource(config, src, image_type, out_dims) ==
    IF ~src.ok
    THEN [config |-> config, layer |-> FailedLayer(src.error)]
    ELSE [config |-> DictSet(config, "source", src.value),
          layer  |-> LayerOf(UpdateState(<<>>,
                                         DictSet(config, "source", src.value),
                                         src.value, image_type),
                             src.value, out_dims)]

\* the object constructed, or the exception, and the caller's dict afterwards
NewNgLayer(config, mount, bucket, image_type, dims) ==
    IF ~DictHas(config, "source")
    THEN [config |-> config, layer |-> FailedLayer("KeyError")]
    ELSE BuildWithSource(
             config,
             FixImageSource(DictGet(config, "source"), mount, bucket,
                            helper_reverse_dictionary(dims)),
             image_type, helper_reverse_dictionary(dims))

----------------------------------------------------------------------------
(* NgState: output path, viewer link, dimensions, layers, state *)

Str_HomeJupyter ==
    <<"/", "h", "o", "m", "e", "/", "j", "u", "p", "y", "t", "e", "r", "/">>
Str_FourSlashes == <<"/", "/", "/", "/">>
Str_TwoSlashes  == <<"/", "/">>
Str_LinkSep     == <<"#!">>

\* self.output_json after line 73
FixOutputJsonPath(output_json) ==
    PathStr(Replace(Replace(output_json, Str_HomeJupyter, <<>>),
                    Str_FourSlashes, Str_TwoSlashes))

\* the link; base_url is one piece of text that is only joined
GetUrlLink(output_json, mount, bucket, base_url, json_name) ==
    base_url \o Str_LinkSep \o mount \o Str_SchemeSep \o bucket \o Str_Slash
      \o PathJoin(PathStem(output_json), json_name)

\* what pint knows of a unit: its dimension and the factor to the base unit.
\* Magnitudes are integers: a voxel size counts tenths of its unit, a
\* converted size counts 1e-10 of a meter or of a second
UnitScale(unit) ==
    CASE unit = "microns"      -> [metric |-> "meters", factor |-> 1000]
      [] unit = "nanometers"   -> [metric |-> "meters", factor |-> 1]
      [] unit = "millimeters"  -> [metric |-> "meters", factor |-> 1000000]
      [] unit = "milliseconds" -> [metric |-> "seconds", factor |-> 1000000]
      [] OTHER                 -> [metric |-> "undefined", factor |-> 0]

NeuroglancerMetric(dest_metric) == IF dest_metric = "meters" THEN "m" ELSE "s"

\* [dest_quantity.m, neuroglancer_metric], or the exception pint raises
UnpackAxis(axis_values, dest_metric) ==
    IF dest_metric \notin {"meters", "seconds"}
    THEN Raise("NotImplementedError")
    ELSE IF UnitScale(axis_values[2]).metric = "undefined"
    THEN Raise("UndefinedUnitError")
    ELSE IF UnitScale(axis_values[2]).metric # dest_metric
    THEN Raise("DimensionalityError")
    ELSE Ok(<<axis_values[1] * UnitScale(axis_values[2]).factor,
              NeuroglancerMetric(dest_metric)>>)

\* re.search(r"([x-zX-Z])$", axis)
MatchesRegexAxis(axis) ==
    axis # <<>> /\ axis[Len(axis)] \in {"x", "y", "z", "X", "Y", "Z"}

Str_T        == <<"t">>
Str_CPrime   == <<"c", "'">>

StoreUnpacked(dimensions, axis, r) ==
    IF r.ok THEN Ok(DictSet(dimensions, axis, r.value))
    ELSE RaiseWith(r.error, dimensions)

\* one iteration of the loop of the dimensions setter (lines 197-209)
StoreAxis(dimensions, axis, axis_values) ==
    IF MatchesRegexAxis(axis)
    THEN StoreUnpacked(dimensions, axis, UnpackAxis(axis_values, "meters"))
    ELSE IF axis = Str_T
    THEN StoreUnpacked(dimensions, axis, UnpackAxis(axis_values, "seconds"))
    ELSE IF axis = Str_CPrime
    THEN Ok(DictSet(dimensions, axis, axis_values))
    ELSE Ok(dimensions)

RECURSIVE StoreAxes(_, _)
StoreAxes(dimensions, items) ==
    IF items = <<>> THEN Ok(dimensions)
    ELSE Then(StoreAxis(dimensions, items[1][1], items[1][2]),
              LAMBDA d : StoreAxes(d, Tail(items)))

\* self.dimensions = new_dimensions: the dimensions held afterwards, with
\* the exception if one was raised
SetDimensions(dimensions, new_dimensions) ==
    IF new_dimensions.kind # "axes"
    THEN RaiseAbout("ValueError", dimensions, new_dimensions)
    ELSE StoreAxes(dimensions, new_dimensions.od)

Str_Annotation == <<"annotation">>

\* lines 241-259: whether the config of one layer can be put together
LayerConfig(layer_description) ==
    IF ~DictHas(layer_description, "type") THEN Raise("KeyError")
    ELSE IF /\ DictGet(layer_description, "type") = V_Str(Str_Annotation)
            /\ \/ ~DictHas(layer_description, "source")
               \/ ~DictHas(layer_description, "annotations")
    THEN Raise("KeyError")
    ELSE Ok(layer_description)

\* NgLayer() of line 262: __init__ has three required parameters
\* (ng_layer.py lines 98-105) and is called with none
NgLayerNoArguments == Raise("TypeError")

\* line 262 for one layer
AppendLayer(layers_held, layer_description) ==
    Then(LayerConfig(layer_description),
         LAMBDA config :
             Then(NgLayerNoArguments,
                  LAMBDA l : Ok(Append(layers_held, l.layer_state))))

RECURSIVE AppendLayers(_, _)
AppendLayers(layers_held, descriptions) ==
    IF descriptions = <<>> THEN Ok(layers_held)
    ELSE Then(AppendLayer(layers_held, descriptions[1]),
              LAMBDA held : AppendLayers(held, Tail(descriptions)))

KeepOnError(r, held) == IF r.ok THEN r ELSE [r EXCEPT !.value = held]

\* a layers setter that takes whatever it is given for a list
NoShapeTestSetLayers(layers_held, layers) ==
    KeepOnError(AppendLayers(layers_held, layers.tiles), layers_held)

\* self.layers = layers: the layers held afterwards, with the exception if
\* one was raised
SetLayers(layers_held, layers) ==
    IF layers.kind # "layers"
    THEN RaiseAbout("ValueError", layers_held, layers)
    ELSE KeepOnError(AppendLayers(layers_held, layers.tiles), layers_held)

\* the state getter (lines 288-301)
ActualState(link, dimensions, layers_held) ==
    << <<"ng_link", V_Str(link)>>,
       <<"dimensions", V_Axes(dimensions)>>,
       <<"layers", V_Layers(layers_held)>>,
       <<"showAxisLines", V_Bool(TRUE)>>,
       <<"showScaleBar", V_Bool(TRUE)>> >>

\* the state getter of an NgState object
StateOf(obj, mount, bucket, args) ==
    ActualState(GetUrlLink(obj.output_json, mount, bucket, args.base_url,
                           args.json_name),
                obj.dimensions, obj.layers)

\* the loop of lines 324-329 on the cached state
RECURSIVE ApplyFlags(_, _)
ApplyFlags(state, items) ==
    IF items = <<>> THEN state
    ELSE ApplyFlags(
             IF items[1][1] \in {"showAxisLines", "showScaleBar"}
             THEN DictSet(state, items[1][1], V_Bool(ToBool(items[1][2])))
             ELSE state,
             Tail(items))

NoState == [alive |-> FALSE, error |-> "none", detail |-> <<>>,
            output_json |-> <<>>, dimensions |-> <<>>, layers |-> <<>>,
            state |-> <<>>]

\* no object: the constructor raised r
FailedState(r) == [NoState EXCEPT !.error = r.error, !.detail = r.detail]

\* lines 319-329, on the dimensions the setter has stored
InitializeLayers(config, mount, bucket, args, output_json, dimensions) ==
    IF ~DictHas(config, "layers") THEN FailedState(Raise("KeyError"))
    ELSE IF ~SetLayers(<<>>, DictGet(config, "layers")).ok
    THEN FailedState(SetLayers(<<>>, DictGet(config, "layers")))
    ELSE [alive |-> TRUE, error |-> "none", detail |-> <<>>,
          output_json |-> output_json,
          dimensions |-> dimensions,
          layers |-> SetLayers(<<>>, DictGet(config, "layers")).value,
          state |->
              ApplyFlags(
                  ActualState(
                      GetUrlLink(output_json, mount, bucket, args.base_url,
                                 args.json_name),
                      dimensions,
                      SetLayers(<<>>, DictGet(config, "layers")).value),
                  config)]

\* initialize_attributes(input_config) (lines 316-329)
InitializeAttributes(config, mount, bucket, args, output_json) ==
    IF ~DictHas(config, "dimensions") THEN FailedState(Raise("KeyError"))
    ELSE IF ~SetDimensions(<<>>, DictGet(config, "dimensions")).ok
    THEN FailedState(SetDimensions(<<>>, DictGet(config, "dimensions")))
    ELSE InitializeLayers(
             config, mount, bucket, args, output_json,
             SetDimensions(<<>>, DictGet(config, "dimensions")).value)

\* NgState(input_config, mount_service, bucket_path, output_json,
\*         base_url=..., json_name=...): the object, or the exception
NewNgState(config, mount, bucket, args) ==
    InitializeAttributes(config, mount, bucket, args,
                         FixOutputJsonPath(args.output_json))

\* utils.save_dict_as_json(final_path, state): the file written
SaveDictAsJson(final_path, state) ==
    [op |-> "save", path |-> final_path, content |-> state]

----------------------------------------------------------------------------
(* Values the variables hold before anything was called or built *)

NoCall   == [called |-> FALSE, delta_x |-> 0, delta_y |-> 0, delta_z |-> 0,
             n_cols |-> 0, n_rows |-> 0]
NoResult == Raise("not called")
NoLayerCall == [op |-> "none", arg |-> V_None, raised |-> "none",
                returned |-> <<>>]
NoArgs   == [output_json |-> <<>>, base_url |-> <<>>, json_name |-> <<>>]
NoDoc    == [op |-> "none", path |-> <<>>, content |-> <<>>]
NoStateCall == [op |-> "none", arg |-> V_None, raised |-> "none",
                detail |-> <<>>]

----------------------------------------------------------------------------
(* Calls of helper_create_ng_translation_matrix *)

\* translations callers pass: small offsets, a tile offset of example_2,
\* and offsets past the 11 bits a float16 holds exactly
Deltas == {-14192, -1, 0, 1, 2, 3, 2049, 65535}

MatrixArgs ==
    [called : {FALSE}, delta_x : Deltas, delta_y : Deltas, delta_z : Deltas,
     n_cols : 1..MaxCols, n_rows : 0..MaxRows]

\* the call, on the arguments the caller prepared
CallTranslationMatrix ==
    /\ ~m_args.called
    /\ m_args' = [m_args EXCEPT !.called = TRUE]
    /\ m_result' = helper_create_ng_translation_matrix(
                       m_args.delta_x, m_args.delta_y, m_args.delta_z,
                       m_args.n_cols, m_args.n_rows)
    /\ UNCHANGED <<source_vars, layer_vars, state_vars>>

----------------------------------------------------------------------------
(* Inputs of source resolution *)

MountServices == {Str_S3, Str_GS}
Str_Bucket    == <<"b">>
Str_BucketLong == <<"d", "a", "t", "a">>
Buckets       == {Str_Bucket, Str_BucketLong}

Str_A    == <<"a">>
Str_Dir  == <<"d", "/">>

P_Plain         == Str_A \o Str_Zarr                  \* a.zarr
P_InDir         == Str_Dir \o Str_A \o Str_Zarr       \* d/a.zarr
P_DoubleSlash   == Str_Dir \o Str_Slash \o Str_A \o Str_Zarr   \* d//a.zarr
P_DotSlash      == Str_Dot \o Str_Slash \o Str_A \o Str_Zarr   \* ./a.zarr
P_Absolute      == Str_Slash \o Str_A \o Str_Zarr     \* /a.zarr
P_TrailingSlash == Str_A \o Str_Zarr \o Str_Slash     \* a.zarr/
P_Tif           == Str_A \o Str_Tif                   \* a.tif
P_NoSuffix      == Str_A                              \* a
P_S3            == Str_S3 \o Str_SchemeSep \o Str_Bucket \o Str_Slash \o P_Plain
P_GS            == Str_GS \o Str_SchemeSep \o Str_Bucket \o Str_Slash \o P_Plain
P_S3Tif         == Str_S3 \o Str_SchemeSep \o Str_Bucket \o Str_Slash \o P_Tif
P_S3Trailing    == P_S3 \o Str_Slash                  \* s3://b/a.zarr/

Paths == {P_Plain, P_InDir, P_DoubleSlash, P_DotSlash, P_Absolute,
          P_TrailingSlash, P_Tif, P_NoSuffix, P_S3, P_GS, P_S3Tif, P_S3Trailing}

\* axis names and converted dimensions ([magnitude in 1e-10 units, unit])
AX_x == <<"x">>
AX_y == <<"y">>
AX_z == <<"z">>
AX_t == <<"t">>
AX_c == <<"c", "'">>

Dims_ZYX == << <<AX_z, <<20000, "m">>>>, <<AX_y, <<18000, "m">>>>,
               <<AX_x, <<18000, "m">>>> >>
Dims_XT  == << <<AX_x, <<7000, "m">>>>, <<AX_t, <<10000000, "s">>>> >>
SharedDimensions == {Dims_ZYX, Dims_XT}

\* an affine matrix supplied verbatim, and a transform already in the
\* viewer's format
AffineMatrix == << <<1, 0, 0, 7>>, <<0, 2, 0, 8>>, <<0, 0, 1, 9>> >>
OtherMatrix  == << <<5>> >>

T_Url(p)  == << <<"url", V_Str(p)>> >>
Tiles ==
    { T_Url(P_Plain),
      T_Url(P_Tif),
      T_Url(P_DoubleSlash) \o << <<"name", V_Str(Str_A)>> >>,
      T_Url(P_S3) \o << <<"transform_matrix", V_Deltas(1, 2, 3)>> >>,
      << <<"transform_matrix", V_Deltas(-14192, 2049, 0)>> >> \o T_Url(P_InDir),
      T_Url(P_GS) \o << <<"transform_matrix", V_List(AffineMatrix)>>,
                        <<"tool", V_None>> >>,
      T_Url(P_Plain) \o << <<"transform_matrix", V_None>> >>,
      << <<"transform", V_Transform(OtherMatrix, <<>>)>>,
         <<"transform_matrix", V_Deltas(1, 2, 3)>> >> \o T_Url(P_Plain),
      T_Url(P_Plain) \o << <<"transform_matrix", V_List(AffineMatrix)>>,
                           <<"transform", V_Transform(OtherMatrix, <<>>)>> >> }

RECURSIVE SeqsUpTo(_, _)
SeqsUpTo(S, n) ==
    IF n = 0 THEN {<<>>}
    ELSE SeqsUpTo(S, n - 1)
         \cup {Append(q, x) : q \in SeqsUpTo(S, n - 1), x \in S}

TileLists == SeqsUpTo(Tiles, MaxTiles)

----------------------------------------------------------------------------
(* Source resolution on an NgLayer with given attributes *)

\* self.__fix_image_source(p) for a single path
ResolvePath ==
    /\ r_in = V_None
    /\ \E p \in Paths :
          /\ r_in' = V_Str(p)
          /\ r_first' = V_Str(p)
          /\ r_out' = FixImageSource(V_Str(p), mount_service, bucket_path,
                                     helper_reverse_dictionary(shared_dimensions))
    /\ UNCHANGED <<mount_service, bucket_path, shared_dimensions,
                   matrix_vars, layer_vars, state_vars>>

\* the resolved url is resolved again, as happens when a description whose
\* "source" the constructor has overwritten (line 134) is built a second time
ResolveAgain ==
    /\ r_out.ok
    /\ r_in.kind = "str"
    /\ r_in = r_first
    /\ r_in' = r_out.value
    /\ r_out' = FixImageSource(r_out.value, mount_service, bucket_path,
                               helper_reverse_dictionary(shared_dimensions))
    /\ UNCHANGED <<mount_service, bucket_path, shared_dimensions, r_first,
                   matrix_vars, layer_vars, state_vars>>

\* self.__fix_image_source(tiles) for a list of tile dicts
ResolveTiles ==
    /\ r_in = V_None
    /\ \E ts \in TileLists :
          /\ r_in' = V_Tiles(ts)
          /\ r_first' = V_Tiles(ts)
          /\ r_out' = FixImageSource(V_Tiles(ts), mount_service, bucket_path,
                                     helper_reverse_dictionary(shared_dimensions))
    /\ UNCHANGED <<mount_service, bucket_path, shared_dimensions,
                   matrix_vars, layer_vars, state_vars>>

----------------------------------------------------------------------------
(* Layer descriptions and the operations on an NgLayer *)

Str_N == <<"n">>

\* two tiles, the first in a directory, as in example_2
LayerTiles ==
    << T_Url(P_InDir) \o << <<"transform_matrix", V_Deltas(-14192, 2049, 0)>> >>,
       T_Url(P_S3) \o << <<"transform_matrix", V_Deltas(1, 2, 3)>> >> >>

LayerSources ==
    {V_Str(P_Plain), V_Str(P_InDir), V_Str(P_S3), V_Str(P_Tif),
     V_Str(P_TrailingSlash), V_Str(P_S3Trailing),
     V_Tiles(LayerTiles), V_Tiles(<<T_Url(P_Plain), T_Url(P_Tif)>>)}

OptChannel == {<<>>} \cup {<< <<"channel", V_Int(c)>> >> : c \in 0..MaxChannel}
OptName    == {<<>>, << <<"name", V_Str(Str_N)>> >>}
\* the optional fields of example_1 and example_2
OptExtras  ==
    {<<>>,
     << <<"shader", V_Shader("green", "RGB", "vec3")>>,
        <<"shaderControls", V_Controls(0, 500)>>,
        <<"visible", V_Bool(FALSE)>>,
        <<"opacity", V_Float(50)>> >>}

Str_Segmentation == <<"segmentation">>
LayerTypes == {Str_Image, Str_Segmentation}

LayerDescriptions ==
    UNION { { << <<"source", src>>, <<"type", V_Str(ty)>> >>
                 \o ch \o nm \o ex : ty \in LayerTypes }
            \cup { ch \o nm \o ex \o << <<"source", src>> >> } :
            src \in LayerSources, ch \in OptChannel, nm \in OptName,
            ex \in OptExtras }

\* NgLayer(image_config, mount_service, bucket_path, output_dimensions=...)
NewLayer ==
    /\ builds < MaxBuilds
    /\ \E r \in {NewNgLayer(image_config, mount_service, bucket_path, Str_Image,
                            shared_dimensions)} :
          /\ layer' = r.layer
          /\ image_config' = r.config
          /\ l_call' = [op |-> "NgLayer",
                        arg |-> IF DictHas(image_config, "source")
                                THEN DictGet(image_config, "source")
                                ELSE V_None,
                        raised |-> r.layer.error, returned |-> <<>>]
    /\ builds' = builds + 1
    /\ UNCHANGED <<given_config, matrix_vars, source_vars, state_vars>>

ChannelInputs == {V_Int(c) : c \in 0..MaxChannel} \cup {V_None}

\* layer.image_channel = channel
AssignImageChannel ==
    /\ layer.alive
    /\ \E channel \in ChannelInputs :
          \E r \in {SetImageChannel(layer.layer_state, channel)} :
             /\ layer' = IF r.ok THEN [layer EXCEPT !.layer_state = r.value]
                         ELSE layer
             /\ l_call' = [op |-> "image_channel", arg |-> channel,
                           raised |-> r.error, returned |-> <<>>]
    /\ UNCHANGED <<image_config, given_config, builds,
                   matrix_vars, source_vars, state_vars>>

\* value = layer.image_channel
ReadImageChannel ==
    /\ layer.alive
    /\ \E r \in {GetImageChannel(layer.layer_state)} :
          l_call' = [op |-> "get image_channel", arg |-> V_None,
                     raised |-> r.error,
                     returned |-> IF r.ok THEN <<r.value>> ELSE <<>>]
    /\ UNCHANGED <<layer, image_config, given_config, builds,
                   matrix_vars, source_vars, state_vars>>

----------------------------------------------------------------------------
(* Input descriptions and the operations on an NgState *)

\* the defaults of lines 47 and 48
DefaultBaseUrl  == <<"https://neuroglancer-demo.appspot.com/">>
DefaultJsonName ==
    <<"p", "r", "o", "c", "e", "s", "s", "_", "o", "u", "t", "p", "u", "t",
      ".", "j", "s", "o", "n">>

OtherBaseUrl  == <<"http://localhost:8080/">>
OtherJsonName == <<"n", ".", "j", "s", "o", "n">>

Str_U   == <<"/", "u", "/">>
Str_Src == <<"s", "r", "c">>
OD_Src      == Str_U \o Str_Src                       \* /u/src
OD_Home     == Str_HomeJupyter \o Str_Src             \* /home/jupyter/src
OD_Dotted   == Str_U \o <<"r", ".", "v", "2">>        \* /u/r.v2
OD_Trailing == Str_U \o Str_Src \o Str_Slash          \* /u/src/
OD_Relative == Str_Src                                \* src
OutputDirs  == {OD_Src, OD_Home, OD_Dotted, OD_Trailing, OD_Relative}

StateArgs ==
    {[output_json |-> o, base_url |-> DefaultBaseUrl,
      json_name |-> DefaultJsonName] : o \in OutputDirs}
    \cup {[output_json |-> OD_Src, base_url |-> OtherBaseUrl,
           json_name |-> OtherJsonName]}

\* the "dimensions" of an input description: voxel sizes in tenths
In_ZYX == << <<AX_z, <<20, "microns">>>>, <<AX_y, <<18, "microns">>>>,
             <<AX_x, <<18, "microns">>>> >>
In_XTC == << <<AX_x, <<7, "microns">>>>, <<AX_t, <<10, "milliseconds">>>>,
             <<AX_c, <<1, "">>>> >>
In_Odd == << <<<<"a", "x">>, <<5, "nanometers">>>>,
             <<<<"c">>, <<1, "">>>>,
             <<<<"Z">>, <<1, "millimeters">>>> >>
In_WrongMetric == << <<AX_y, <<18, "microns">>>>,
                     <<AX_x, <<10, "milliseconds">>>> >>
In_NoUnit == << <<AX_x, <<18, "voxels">>>> >>

OptDimensions ==
    {<<>>, << <<"dimensions", V_Str(Str_A)>> >>}
    \cup {<< <<"dimensions", V_Axes(d)>> >> :
             d \in {<<>>, In_ZYX, In_XTC, In_Odd, In_WrongMetric, In_NoUnit}}

ImageLayer == << <<"source", V_Str(P_Plain)>>, <<"type", V_Str(Str_Image)>>,
                 <<"channel", V_Int(0)>> >>
UntypedLayer == << <<"source", V_Str(P_Plain)>> >>
OtherTypeLayer == << <<"source", V_Str(P_Plain)>>,
                     <<"type", V_Str(Str_Segmentation)>> >>

OptLayers ==
    {<<>>, << <<"layers", V_None>> >>}
    \cup {<< <<"layers", V_Layers(ls)>> >> :
             ls \in {<<>>, <<ImageLayer>>, <<UntypedLayer>>,
                     <<OtherTypeLayer>>, <<ImageLayer, ImageLayer>>}}

FlagInputs == {V_Bool(TRUE), V_Bool(FALSE), V_Int(0)}
OptFlag(key) == {<<>>} \cup {<< <<key, v>> >> : v \in FlagInputs}

InputConfigs ==
    {d \o l \o a \o b : d \in OptDimensions, l \in OptLayers,
                        a \in OptFlag("showAxisLines"),
                        b \in OptFlag("showScaleBar")}

\* NgState(input_config, mount_service, bucket_path, output_json, ...)
Construct ==
    /\ ng = NoState
    /\ ng' = NewNgState(input_config, mount_service, bucket_path, ng_args)
    /\ ng_call' = [op |-> "NgState", arg |-> V_None, raised |-> ng'.error,
                   detail |-> ng'.detail]
    /\ UNCHANGED <<input_config, ng_args, ng_sets, doc,
                   matrix_vars, source_vars, layer_vars>>

\* data = ng.state
ReadState ==
    /\ ng.alive
    /\ doc' = [op |-> "state", path |-> <<>>,
               content |-> StateOf(ng, mount_service, bucket_path, ng_args)]
    /\ ng_call' = [op |-> "state", arg |-> V_None, raised |-> "none",
                   detail |-> <<>>]
    /\ UNCHANGED <<input_config, ng_args, ng, ng_sets,
                   matrix_vars, source_vars, layer_vars>>

\* ng.save_state_as_json(update_state)
SaveStateAsJson ==
    /\ ng.alive
    /\ \E update_state \in BOOLEAN :
          \E st \in {IF update_state
                     THEN StateOf(ng, mount_service, bucket_path, ng_args)
                     ELSE ng.state} :
             /\ ng' = [ng EXCEPT !.state = st]
             /\ doc' = SaveDictAsJson(
                           PathJoin(ng.output_json, ng_args.json_name), st)
             /\ ng_call' = [op |-> "save_state_as_json",
                            arg |-> V_Bool(update_state), raised |-> "none",
                            detail |-> <<>>]
    /\ UNCHANGED <<input_config, ng_args, ng_sets,
                   matrix_vars, source_vars, layer_vars>>

\* the values assigned to the attributes of a live NgState
DimensionInputs == {V_Axes(In_XTC), V_Axes(In_WrongMetric), V_Str(Str_A)}
LayersInputs == {V_Layers(<<>>), V_Layers(<<ImageLayer>>), V_None}

\* the call op(arg) on the NgState, with outcome r
StateCall(op, arg, r) ==
    [op |-> op, arg |-> arg, raised |-> r.error, detail |-> r.detail]

\* ng.dimensions = new_dimensions
AssignDimensions ==
    /\ ng.alive /\ ng_sets < MaxSets
    /\ \E new_dimensions \in DimensionInputs :
          \E r \in {SetDimensions(ng.dimensions, new_dimensions)} :
             /\ ng' = [ng EXCEPT !.dimensions = r.value]
             /\ ng_call' = StateCall("dimensions", new_dimensions, r)
    /\ ng_sets' = ng_sets + 1
    /\ UNCHANGED <<input_config, ng_args, doc,
                   matrix_vars, source_vars, layer_vars>>

\* ng.layers = layers
AssignLayers ==
    /\ ng.alive /\ ng_sets < MaxSets
    /\ \E layers \in LayersInputs :
          \E r \in {SetLayers(ng.layers, layers)} :
             /\ ng' = [ng EXCEPT !.layers = r.value]
             /\ ng_call' = StateCall("layers", layers, r)
    /\ ng_sets' = ng_sets + 1
    /\ UNCHANGED <<input_config, ng_args, doc,
                   matrix_vars, source_vars, layer_vars>>

\* lines 358 and 387: self.__state[key] = bool(value)
SetFlag(state, key, value) == DictSet(state, key, V_Bool(ToBool(value)))

\* ng.show_axis_lines = new_show_axis_lines
AssignShowAxisLines ==
    /\ ng.alive /\ ng_sets < MaxSets
    /\ \E new_show_axis_lines \in FlagInputs :
          /\ ng' = [ng EXCEPT !.state =
                        SetFlag(ng.state, "showAxisLines",
                                new_show_axis_lines)]
          /\ ng_call' = StateCall("show_axis_lines", new_show_axis_lines,
                                  Ok(V_None))
    /\ ng_sets' = ng_sets + 1
    /\ UNCHANGED <<input_config, ng_args, doc,
                   matrix_vars, source_vars, layer_vars>>

\* ng.show_scale_bar = new_show_scale_bar
AssignShowScaleBar ==
    /\ ng.alive /\ ng_sets < MaxSets
    /\ \E new_show_scale_bar \in FlagInputs :
          /\ ng' = [ng EXCEPT !.state =
                        SetFlag(ng.state, "showScaleBar",
                                new_show_scale_bar)]
          /\ ng_call' = StateCall("show_scale_bar", new_show_scale_bar,
                                  Ok(V_None))
    /\ ng_sets' = ng_sets + 1
    /\ UNCHANGED <<input_config, ng_args, doc,
                   matrix_vars, source_vars, layer_vars>>

\* the values handed to the setters: of the type each expects, and others
ShaderControlInputs ==
    {V_Controls(0, 300), V_Str(<<>>), V_List(<<>>), V_Int(3), V_None}
VisibleInputs ==
    {V_Bool(TRUE), V_Bool(FALSE), V_Int(0), V_Str(Str_N), V_None}
OpacityInputs ==
    {V_Float(50), V_Int(1), V_Str(<<"1">>), V_Str(Str_N), V_None}

\* what a setter call leaves: the layer and the record of the call
AfterSetter(op, arg, r) ==
    /\ layer' = IF r.ok THEN [layer EXCEPT !.layer_state = r.value] ELSE layer
    /\ l_call' = [op |-> op, arg |-> arg, raised |-> r.error,
                  returned |-> <<>>]
    /\ UNCHANGED <<image_config, given_config, builds,
                   matrix_vars, source_vars, state_vars>>

\* layer.shader_control = shader_control_config
AssignShaderControl ==
    /\ layer.alive
    /\ \E v \in ShaderControlInputs :
          AfterSetter("shader_control", v, SetShaderControl(layer.layer_state, v))

\* layer.visible = visible
AssignVisible ==
    /\ layer.alive
    /\ \E v \in VisibleInputs :
          AfterSetter("visible", v, SetVisible(layer.layer_state, v))

\* layer.opacity = opacity
AssignOpacity ==
    /\ layer.alive
    /\ \E v \in OpacityInputs :
          AfterSetter("opacity", v, SetOpacity(layer.layer_state, v))

\* the descriptions the setters are tried on
Shaders == {V_Shader("red", "Grayscale", "vec4"), V_Shader("", "x y", "")}
SetterDescriptions ==
    {<< <<"source", V_Str(P_Plain)>>, <<"type", V_Str(Str_Image)>> >> \o ex :
        ex \in OptExtras \cup {<< <<"shader", sh>> >> : sh \in Shaders}}

----------------------------------------------------------------------------
(* Specifications *)

MatrixIdle == m_args = NoCall /\ m_result = NoResult
SourceIdle == /\ mount_service = Str_S3 /\ bucket_path = Str_Bucket
              /\ shared_dimensions = Dims_ZYX
              /\ r_in = V_None /\ r_first = V_None /\ r_out = NoResult
LayerIdle  == /\ image_config = <<>> /\ given_config = <<>>
              /\ layer = NoLayer /\ builds = 0 /\ l_call = NoLayerCall
StateIdle  == /\ input_config = <<>> /\ ng_args = NoArgs
              /\ ng = NoState /\ ng_call = NoStateCall /\ ng_sets = 0
              /\ doc = NoDoc

InitMatrix ==
    /\ m_args \in MatrixArgs /\ m_result = NoResult
    /\ SourceIdle /\ LayerIdle /\ StateIdle
NextMatrix == CallTranslationMatrix
SpecMatrix == InitMatrix /\ [][NextMatrix]_vars

InitSource ==
    /\ MatrixIdle /\ LayerIdle /\ StateIdle
    /\ mount_service \in MountServices
    /\ bucket_path \in Buckets
    /\ shared_dimensions \in SharedDimensions
    /\ r_in = V_None /\ r_first = V_None /\ r_out = NoResult
NextSource == ResolvePath \/ ResolveAgain \/ ResolveTiles
SpecSource == InitSource /\ [][NextSource]_vars

InitLayer ==
    /\ MatrixIdle /\ StateIdle
    /\ mount_service \in MountServices
    /\ bucket_path = Str_Bucket
    /\ shared_dimensions \in SharedDimensions
    /\ r_in = V_None /\ r_first = V_None /\ r_out = NoResult
    /\ image_config \in LayerDescriptions
    /\ given_config = image_config
    /\ layer = NoLayer /\ builds = 0 /\ l_call = NoLayerCall
NextLayer == NewLayer \/ AssignImageChannel \/ ReadImageChannel
SpecLayer == InitLayer /\ [][NextLayer]_vars

InitSetters ==
    /\ MatrixIdle /\ StateIdle
    /\ mount_service \in MountServices
    /\ bucket_path = Str_Bucket
    /\ shared_dimensions = Dims_ZYX
    /\ r_in = V_None /\ r_first = V_None /\ r_out = NoResult
    /\ image_config \in SetterDescriptions
    /\ given_config = image_config
    /\ layer = NoLayer /\ builds = 0 /\ l_call = NoLayerCall
NextSetters ==
    NewLayer \/ AssignShaderControl \/ AssignVisible \/ AssignOpacity
SpecSetters == InitSetters /\ [][NextSetters]_vars

InitState ==
    /\ MatrixIdle /\ LayerIdle
    /\ mount_service \in MountServices
    /\ bucket_path = Str_Bucket
    /\ shared_dimensions = Dims_ZYX
    /\ r_in = V_None /\ r_first = V_None /\ r_out = NoResult
    /\ input_config \in InputConfigs
    /\ ng_args \in StateArgs
    /\ ng = NoState /\ ng_call = NoStateCall /\ ng_sets = 0 /\ doc = NoDoc
NextState == Construct \/ ReadState \/ SaveStateAsJson
SpecState == InitState /\ [][NextState]_vars

\* the input descriptions of the NgState objects whose attributes are assigned
AssignedConfigs ==
    {<< <<"dimensions", V_Axes(d)>>, <<"layers", V_Layers(<<>>)>> >> \o b :
        d \in {<<>>, In_ZYX}, b \in OptFlag("showScaleBar")}

\* an NgState is built, its attributes are assigned, its state read and saved
InitAssign ==
    /\ MatrixIdle /\ LayerIdle
    /\ mount_service = Str_S3
    /\ bucket_path = Str_Bucket
    /\ shared_dimensions = Dims_ZYX
    /\ r_in = V_None /\ r_first = V_None /\ r_out = NoResult
    /\ input_config \in AssignedConfigs
    /\ ng_args = [output_json |-> OD_Src, base_url |-> DefaultBaseUrl,
                  json_name |-> DefaultJsonName]
    /\ ng = NoState /\ ng_call = NoStateCall /\ ng_sets = 0 /\ doc = NoDoc
NextAssign ==
    \/ Construct \/ ReadState \/ SaveStateAsJson
    \/ AssignDimensions \/ AssignLayers
    \/ AssignShowAxisLines \/ AssignShowScaleBar
SpecAssign == InitAssign /\ [][NextAssign]_vars

----------------------------------------------------------------------------
(* Claims about helper_create_ng_translation_matrix *)

\* the 5x6 identity with the deltas, as given, in the last column
ExpectedTranslation(dx, dy, dz) ==
    [i \in 1..DefaultRows |-> [j \in 1..DefaultCols |->
        IF j = DefaultCols /\ i = DefaultRows THEN dx
        ELSE IF j = DefaultCols /\ i = DefaultRows - 1 THEN dy
        ELSE IF j = DefaultCols /\ i = DefaultRows - 2 THEN dz
        ELSE IF i = j THEN 1 ELSE 0]]

DefaultSizeCall ==
    m_args.called /\ m_args.n_rows = DefaultRows /\ m_args.n_cols = DefaultCols

\* C1: for every delta triple, the call with the default size returns the
\* 5x6 identity except that M[4][5] = dx, M[3][5] = dy, M[2][5] = dz
\* (rows and columns counted from 0)
C1_IdentityWithDeltas ==
    DefaultSizeCall =>
        /\ m_result.ok
        /\ m_result.value =
               ExpectedTranslation(m_args.delta_x, m_args.delta_y, m_args.delta_z)

\* C2: the call raises for every n_rows with n_rows - 1 < 3 and returns, for
\* every n_rows >= 4, a matrix of n_rows rows whose last column holds the
\* three deltas (as the float16 array stores them) in rows n_rows-1,
\* n_rows-2, n_rows-3: no delta is dropped
C2_RaisesOrWritesAllDeltas ==
    m_args.called =>
        /\ m_args.n_rows - 1 < 3 =>
               ~m_result.ok /\ m_result.error = "ValueError"
        /\ m_args.n_rows >= 4 =>
               /\ m_result.ok
               /\ Len(m_result.value) = m_args.n_rows
               /\ \A i \in 1..m_args.n_rows :
                      Len(m_result.value[i]) = m_args.n_cols
               /\ m_result.value[m_args.n_rows][m_args.n_cols]
                      = Float16(m_args.delta_x)
               /\ m_result.value[m_args.n_rows - 1][m_args.n_cols]
                      = Float16(m_args.delta_y)
               /\ m_result.value[m_args.n_rows - 2][m_args.n_cols]
                      = Float16(m_args.delta_z)

\* a call with n_rows = 3 and three distinct non-zero deltas was refused
C2_Witness ==
    /\ m_args.called /\ m_args.n_rows = 3
    /\ m_args.delta_x = 1 /\ m_args.delta_y = 2 /\ m_args.delta_z = 3
    /\ ~m_result.ok

----------------------------------------------------------------------------
(* Claims about source resolution *)

StoragePrefix == mount_service \o Str_SchemeSep
BucketPrefix  == StoragePrefix \o bucket_path \o Str_Slash

\* a single path has been resolved
PathResolved == r_in.kind = "str" /\ r_out.error # "not called"

\* C3 as stated: a path ending in ".zarr" resolves to
\* "zarr://{scheme}://{bucket}/{path}" when it does not start with
\* "{scheme}://", and to "zarr://" followed by the path when it does
C3_PathVerbatim ==
    (PathResolved /\ EndsWith(r_in.s, Str_Zarr)) =>
        r_out = Ok(V_Str(IF StartsWith(r_in.s, StoragePrefix)
                         THEN Str_ZarrTag \o r_in.s
                         ELSE Str_ZarrTag \o BucketPrefix \o r_in.s))

\* C3 amended: a path ending in ".zarr" that does not start with
\* "{scheme}://" resolves to "zarr://{scheme}://{bucket}/" followed by the
\* path as pathlib renders it (str(Path(path))); one that starts with
\* "{scheme}://" resolves to "zarr://" followed by the path unchanged
C3_PathNormalised ==
    (PathResolved /\ EndsWith(r_in.s, Str_Zarr)) =>
        r_out = Ok(V_Str(IF StartsWith(r_in.s, StoragePrefix)
                         THEN Str_ZarrTag \o r_in.s
                         ELSE Str_ZarrTag \o BucketPrefix \o PathStr(r_in.s)))

\* d//a.zarr was resolved with its doubled separator collapsed, and a path
\* that carries the prefix was resolved without a second prefix
C3_Witness ==
    /\ PathResolved
    /\ r_in.s = P_DoubleSlash
    /\ r_out = Ok(V_Str(Str_ZarrTag \o BucketPrefix \o P_InDir))

\* C4: resolving a url that source resolution produced returns it unchanged
C4_ResolutionIdempotent ==
    (PathResolved /\ r_in # r_first) => r_out = Ok(r_in)

----------------------------------------------------------------------------
(* Claims about tile lists *)

TilesResolved == r_in.kind = "tiles" /\ r_out.ok

OutDims == helper_reverse_dictionary(shared_dimensions)

\* the key of the output tile that key k of an input tile is written to
OutKey(k, v) ==
    IF k = "transform_matrix" /\ v.kind \in {"dict", "list"}
    THEN "transform" ELSE k

\* the value the claim gives the output for key k with value v
OutValue(k, v) ==
    IF k = "url" THEN V_Str(SetS3Path(v.s, mount_service, bucket_path).value)
    ELSE IF k = "transform_matrix" /\ v.kind = "dict"
    THEN V_Transform(
             helper_create_ng_translation_matrix(
                 v.d[1], v.d[2], v.d[3], DefaultCols, DefaultRows).value,
             OutDims)
    ELSE IF k = "transform_matrix" /\ v.kind = "list"
    THEN V_Transform(v.m, OutDims)
    ELSE v

\* key number j of the input tile is the last one written to its output key
LastWriter(tile, j) ==
    \A j2 \in (j + 1)..Len(tile) :
        OutKey(tile[j2][1], tile[j2][2]) # OutKey(tile[j][1], tile[j][2])

OutKeysOf(tile) == {OutKey(tile[j][1], tile[j][2]) : j \in 1..Len(tile)}
KeysOf(dict)    == {dict[j][1] : j \in 1..Len(dict)}

\* C6 as stated: one output tile per input tile, in order; url resolved,
\* a delta transform_matrix expanded and an explicit one kept, each as a
\* "transform" carrying the layer's output dimensions; every other key
\* copied with its value
C6_TileListResolved ==
    TilesResolved =>
        /\ Len(r_out.value.tiles) = Len(r_in.tiles)
        /\ \A i \in 1..Len(r_in.tiles) :
               /\ KeysOf(r_out.value.tiles[i]) = OutKeysOf(r_in.tiles[i])
               /\ \A j \in 1..Len(r_in.tiles[i]) :
                      DictGet(r_out.value.tiles[i],
                              OutKey(r_in.tiles[i][j][1], r_in.tiles[i][j][2]))
                        = OutValue(r_in.tiles[i][j][1], r_in.tiles[i][j][2])

\* what the code does provide: the same, except that a tile's own
\* "transform" key and its "transform_matrix" are both written to the output
\* key "transform", which holds the value of whichever comes later in the tile
C6_TileListLastWriter ==
    TilesResolved =>
        /\ Len(r_out.value.tiles) = Len(r_in.tiles)
        /\ \A i \in 1..Len(r_in.tiles) :
               /\ KeysOf(r_out.value.tiles[i]) = OutKeysOf(r_in.tiles[i])
               /\ \A j \in 1..Len(r_in.tiles[i]) :
                      LastWriter(r_in.tiles[i], j) =>
                      DictGet(r_out.value.tiles[i],
                              OutKey(r_in.tiles[i][j][1], r_in.tiles[i][j][2]))
                        = OutValue(r_in.tiles[i][j][1], r_in.tiles[i][j][2])

\* two tiles were resolved, the first with a delta transform_matrix ahead
\* of its url, the second with an explicit matrix and another key
C6_Witness ==
    /\ TilesResolved
    /\ Len(r_in.tiles) = 2
    /\ r_in.tiles[1][1] = <<"transform_matrix", V_Deltas(-14192, 2049, 0)>>
    /\ DictHas(r_in.tiles[2], "tool")
    /\ DictGet(r_out.value.tiles[2], "transform")
           = V_Transform(AffineMatrix, OutDims)
    /\ DictGet(r_out.value.tiles[1], "transform").m[5][6] = -14192

----------------------------------------------------------------------------
(* Claims about NgLayer *)

\* the last operation was the constructor, given source src
Built == l_call.op = "NgLayer"

NoLayerProduced ==
    /\ ~layer.alive
    /\ layer.layer_state = <<>>
    /\ l_call.raised = "NotImplementedError"

\* some path of the source fails test(_): the single path, or a tile's url
SomePath(src, test(_)) ==
    \/ src.kind = "str" /\ test(src.s)
    \/ /\ src.kind = "tiles"
       /\ \E i \in 1..Len(src.tiles) :
             /\ DictHas(src.tiles[i], "url")
             /\ test(DictGet(src.tiles[i], "url").s)

NotZarr(p) == ~EndsWith(p, Str_Zarr)

\* the path whose suffix is looked at: a path that carries the storage
\* prefix as it is, any other path as pathlib writes it
EffectivePath(p) == IF StartsWith(p, StoragePrefix) THEN p ELSE PathStr(p)
NotZarrEffective(p) == ~EndsWith(EffectivePath(p), Str_Zarr)

\* C5 as stated: a source with a path (the single path, or the url of a
\* tile) that does not end in ".zarr" fails with NotImplementedError and no
\* layer state is produced
C5_NonZarrAborts ==
    (Built /\ SomePath(l_call.arg, NotZarr)) => NoLayerProduced

\* C5 amended: the same for a path that does not end in ".zarr" once an
\* unprefixed path has been normalised by pathlib (which drops a trailing
\* slash); a path that carries the storage prefix is taken as it is
C5_NonZarrEffectiveAborts ==
    (Built /\ SomePath(l_call.arg, NotZarrEffective)) => NoLayerProduced

\* a tile list whose second url is a .tif was given, and no layer was built
C5_Witness ==
    /\ Built
    /\ l_call.arg = V_Tiles(<<T_Url(P_Plain), T_Url(P_Tif)>>)
    /\ NoLayerProduced

ChannelStored == DictGet(layer.layer_state, "localDimensions")

\* C7: a layer built from a description with integer channel c, or whose
\* channel was set to c through the setter, has localDimensions
\* {"c'": [c + 1, ""]}
C7_ChannelStoredPlusOne ==
    /\ (Built /\ layer.alive /\ DictHas(image_config, "channel")) =>
           ChannelStored
             = V_LocalDimensions(DictGet(image_config, "channel").n + 1)
    /\ (l_call.op = "image_channel" /\ l_call.arg.kind = "int") =>
           /\ l_call.raised = "none"
           /\ ChannelStored = V_LocalDimensions(l_call.arg.n + 1)

\* a layer described with channel 0 had its channel set to 1, stored as 2
C7_Witness ==
    /\ l_call.op = "image_channel"
    /\ l_call.arg = V_Int(1)
    /\ DictHas(given_config, "channel")
    /\ DictGet(given_config, "channel") = V_Int(0)
    /\ ChannelStored.n = 2

\* the url the default name is derived from
NamedPath(src) ==
    IF src.kind = "str" THEN src.s ELSE DictGet(src.tiles[1], "url").s

\* the channel as the description gives it, "" when it gives none
InputChannelText ==
    IF DictHas(image_config, "channel")
    THEN IntToStr(DictGet(image_config, "channel").n)
    ELSE <<>>

\* C8: a layer built from a description without a name is named
\* "{stem of the source path}_{channel}", with the channel as given in the
\* description (0-based) and nothing when the description has no channel
C8_NameFromInputChannel ==
    (Built /\ layer.alive /\ ~DictHas(image_config, "name")) =>
        DictGet(layer.layer_state, "name")
          = V_Str(PathStem(NamedPath(l_call.arg)) \o <<"_">>
                  \o InputChannelText)

----------------------------------------------------------------------------
(* Claims about NgState *)

\* C9: the link of a constructed NgState is base_url, "#!", the scheme,
\* "://", the bucket, "/", the final segment of the output directory, "/"
\* and json_name
C9_LinkNamesOutputDirectory ==
    ng.alive =>
        DictGet(ng.state, "ng_link").s
          = ng_args.base_url \o Str_LinkSep \o mount_service \o Str_SchemeSep
              \o bucket_path \o Str_Slash \o PathName(ng_args.output_json)
              \o Str_Slash \o ng_args.json_name

\* the value the input description gives a flag, true when it gives none
FlagOfInput(key) ==
    IF DictHas(input_config, key) THEN DictGet(input_config, key)
    ELSE V_Bool(TRUE)

\* C10: in a document obtained from the NgState, showAxisLines and
\* showScaleBar are true when the input description has no such key, and
\* the input's value when it has a boolean one
C10_FlagsFollowInput ==
    doc.op # "none" =>
        \A key \in {"showAxisLines", "showScaleBar"} :
            FlagOfInput(key).kind = "bool" =>
                DictGet(doc.content, key) = FlagOfInput(key)

----------------------------------------------------------------------------
(* Claims about the dimensions of an NgState *)

\* the axes of the input description, when it has a dict of them
InputAxes ==
    IF DictHas(input_config, "dimensions")
       /\ DictGet(input_config, "dimensions").kind = "axes"
    THEN DictGet(input_config, "dimensions").od
    ELSE <<>>

SingleLetterXYZ(axis) ==
    Len(axis) = 1 /\ axis[1] \in {"x", "y", "z", "X", "Y", "Z"}

\* the pair a conversion of axis_values to a metric gives
Converted(axis_values, literal) ==
    <<axis_values[1] * UnitScale(axis_values[2]).factor, literal>>

\* the axis is held, converted to meters
HeldInMeters(axis, axis_values) ==
    /\ DictHas(ng.dimensions, axis)
    /\ DictGet(ng.dimensions, axis) = Converted(axis_values, "m")

\* C11: an axis is converted to meters with unit "m" exactly when its name
\* is one letter x, y or z of either case; "t" is converted to seconds with
\* unit "s"; "c'" is passed through unchanged
C11_AxisRoutedByName ==
    ng.alive =>
        \A i \in 1..Len(InputAxes) :
            /\ SingleLetterXYZ(InputAxes[i][1])
                 <=> HeldInMeters(InputAxes[i][1], InputAxes[i][2])
            /\ InputAxes[i][1] = Str_T =>
                 DictGet(ng.dimensions, Str_T)
                   = Converted(InputAxes[i][2], "s")
            /\ InputAxes[i][1] = Str_CPrime =>
                 DictGet(ng.dimensions, Str_CPrime) = InputAxes[i][2]

\* the axis names of a dict of axes, in order
AxisNames(axes) == [i \in 1..Len(axes) |-> axes[i][1]]

DocumentDimensions == DictGet(ng.state, "dimensions").od

\* C12: the document's dimensions hold the axis names of the input, none
\* missing or added, in the input's order, each with a 2-element pair
C12_EveryAxisInOrder ==
    ng.alive =>
        /\ AxisNames(DocumentDimensions) = AxisNames(InputAxes)
        /\ \A i \in 1..Len(DocumentDimensions) :
               Len(DocumentDimensions[i][2]) = 2

----------------------------------------------------------------------------
(* Claims about the fields of a layer state *)

\* the value of a field: the description's when it has the key, else the
\* default
GivenOr(key, default) ==
    IF DictHas(image_config, key) THEN DictGet(image_config, key)
    ELSE default

\* C13: in a layer built from a description, channel, shaderControls,
\* visible and type hold the description's value when it has the key and
\* the default (channel 0, range [0, 200], true, "image") when it has not,
\* in either order of the keys; the channel is held 1-based
C13_DefaultsOnlyWhenAbsent ==
    (Built /\ layer.alive) =>
        /\ ChannelStored = V_LocalDimensions(GivenOr("channel", V_Int(0)).n + 1)
        /\ DictGet(layer.layer_state, "shaderControls")
             = GivenOr("shaderControls", V_Controls(0, 200))
        /\ DictGet(layer.layer_state, "visible")
             = GivenOr("visible", V_Bool(TRUE))
        /\ DictGet(layer.layer_state, "type") = GivenOr("type", V_Str(Str_Image))

\* a layer was built from a description that ends with its source and
\* gives channel 2, its own range and visible false, but no type
C13_Witness ==
    /\ Built /\ layer.alive
    /\ image_config[1] = <<"channel", V_Int(2)>>
    /\ ~DictHas(image_config, "type")
    /\ DictGet(layer.layer_state, "type") = V_Str(Str_Image)
    /\ DictGet(layer.layer_state, "visible") = V_Bool(FALSE)
    /\ DictGet(layer.layer_state, "shaderControls") = V_Controls(0, 500)
    /\ ChannelStored.n = 3

\* the value is of the type the setter is for
RightType(op, v) ==
    CASE op = "shader_control" -> v.kind = "controls"
      [] op = "visible"        -> v.kind = "bool"
      [] op = "opacity"        -> v.kind \in {"float", "int"}

SetterField(op) ==
    CASE op = "shader_control" -> "shaderControls"
      [] op = "visible"        -> "visible"
      [] op = "opacity"        -> "opacity"

\* the value as held: itself, an integer opacity as the float it equals
HeldAs(v) == IF v.kind = "int" THEN V_Float(100 * v.n) ELSE v

\* C14: a call of the shaderControls, visible or opacity setter with a
\* value of the right type stores it unchanged; with a value of another
\* type it raises and leaves the layer as it was
C14_SettersTyped ==
    [][l_call'.op \in {"shader_control", "visible", "opacity"} =>
          IF RightType(l_call'.op, l_call'.arg)
          THEN /\ l_call'.raised = "none"
               /\ DictGet(layer'.layer_state, SetterField(l_call'.op))
                    = HeldAs(l_call'.arg)
          ELSE /\ l_call'.raised # "none"
               /\ layer' = layer]_vars

\* the lines of a text, joined by newlines
RECURSIVE JoinLines(_)
JoinLines(lines) ==
    IF Len(lines) = 1 THEN lines[1]
    ELSE lines[1] \o <<"\n">> \o JoinLines(Tail(lines))

GivenShader == DictGet(image_config, "shader")

\* C15: the shader text of a layer built from a description with a shader
\* {color, emitter, vec} is the five lines
\*   #uicontrol {vec} color color(default="{color}")
\*   #uicontrol invlerp normalized
\*   void main() {
\*   emit{emitter}(color * normalized());
\*   }
\* whatever the emitter is
C15_ShaderText ==
    (Built /\ layer.alive /\ DictHas(image_config, "shader")) =>
        DictGet(layer.layer_state, "shader").s
          = JoinLines(<< <<"#uicontrol ", GivenShader.s[3],
                           " color color(default=\"", GivenShader.s[1], "\")">>,
                         <<"#uicontrol invlerp normalized">>,
                         <<"void main() {">>,
                         <<"emit", GivenShader.s[2], "(color * normalized());">>,
                         <<"}">> >>)

\* a layer was built whose shader has an emitter that names no emit function
C15_Witness ==
    /\ Built /\ layer.alive
    /\ DictHas(image_config, "shader")
    /\ GivenShader = V_Shader("", "x y", "")
    /\ DictGet(layer.layer_state, "shader").s[12] = "x y"

----------------------------------------------------------------------------
(* Claims about assignments to the attributes of a live NgState *)

\* the step is a save that asked for a refresh
RefreshedSave ==
    /\ ng_call'.op = "save_state_as_json"
    /\ ng_call'.arg = V_Bool(TRUE)

\* C16: a save with update_state=True writes the dimensions, the layers and
\* the link the NgState holds when it is called, and the showAxisLines and
\* showScaleBar last stored in the NgState, by its constructor or by a
\* setter
C16_RefreshedSaveWritesCurrent ==
    [][RefreshedSave =>
          /\ doc'.op = "save"
          /\ DictGet(doc'.content, "dimensions") = V_Axes(ng.dimensions)
          /\ DictGet(doc'.content, "layers") = V_Layers(ng.layers)
          /\ DictGet(doc'.content, "ng_link")
               = V_Str(GetUrlLink(ng.output_json, mount_service, bucket_path,
                                  ng_args.base_url, ng_args.json_name))
          /\ \A key \in {"showAxisLines", "showScaleBar"} :
                DictGet(doc'.content, key) = DictGet(ng.state, key)]_vars

\* the step is an assignment to dimensions or to layers that raised
RaisingAssignment ==
    /\ ng_call'.op \in {"dimensions", "layers"}
    /\ ng_call'.raised # "none"

\* C17: an assignment to dimensions or to layers that raises leaves the
\* dimensions and the layers of the NgState as they were before it
C17_RaisingAssignmentKeepsAll ==
    [][RaisingAssignment =>
          /\ ng'.dimensions = ng.dimensions
          /\ ng'.layers = ng.layers]_vars

----------------------------------------------------------------------------
(* Claims about the input descriptions an NgState accepts *)

\* the constructor of the NgState has returned or raised
Constructed == ng_call.op = "NgState"

DimensionsValue == DictGet(input_config, "dimensions")
LayersValue == DictGet(input_config, "layers")

WrongShapedDimensions ==
    DictHas(input_config, "dimensions") /\ DimensionsValue.kind # "axes"
WrongShapedLayers ==
    DictHas(input_config, "layers") /\ LayersValue.kind # "layers"

\* a layer description without a type, or of a type that names no builder
BadlyTyped(layer_description) ==
    \/ ~DictHas(layer_description, "type")
    \/ DictGet(layer_description, "type")
          \notin {V_Str(Str_Image), V_Str(Str_Annotation)}

Malformed ==
    \/ ~DictHas(input_config, "dimensions")
    \/ ~DictHas(input_config, "layers")
    \/ WrongShapedDimensions
    \/ WrongShapedLayers
    \/ /\ DictHas(input_config, "layers")
       /\ \E i \in 1..Len(LayersValue.tiles) :
             BadlyTyped(LayersValue.tiles[i])

\* C18: the constructor raises for an input description without
\* "dimensions" or "layers", with dimensions that are no dict, with layers
\* that are no list, or with a layer whose type is absent or neither image
\* nor annotation; the ValueError for dimensions that are no dict, or for
\* layers that are no list, shows the value received
C18_MalformedRejected ==
    Constructed =>
        /\ Malformed => (~ng.alive /\ ng.error # "none")
        /\ WrongShapedDimensions =>
              (ng.error = "ValueError" /\ ng.detail = <<DimensionsValue>>)
        /\ (WrongShapedLayers /\ ng.error = "ValueError"
                              /\ ~WrongShapedDimensions) =>
              ng.detail = <<LayersValue>>

\* the constructor raised the ValueError for layers that are no list, after
\* it had converted the dimensions
C18_Witness ==
    /\ Constructed
    /\ DictHas(input_config, "dimensions") /\ DimensionsValue = V_Axes(In_ZYX)
    /\ WrongShapedLayers
    /\ ~ng.alive /\ ng.error = "ValueError" /\ ng.detail = <<LayersValue>>

\* the input description has dimensions the setter converts and a list of
\* layers that each name a builder
ValidInput ==
    /\ ~Malformed
    /\ SetDimensions(<<>>, DimensionsValue).ok

\* the layer state an NgLayer builds from the i-th layer description
LayerBuiltFrom(i) ==
    NewNgLayer(LayersValue.tiles[i], mount_service, bucket_path, Str_Image,
               ng.dimensions).layer.layer_state

\* C19: the constructor given converted dimensions and a list of n layer
\* descriptions of type image or annotation returns an NgState that holds n
\* layers, the i-th the layer state built from the i-th description
C19_OneLayerPerDescription ==
    (Constructed /\ ValidInput) =>
        /\ ng.alive
        /\ Len(ng.layers) = Len(LayersValue.tiles)
        /\ \A i \in 1..Len(LayersValue.tiles) :
              DictGet(LayersValue.tiles[i], "type") = V_Str(Str_Image) =>
                  ng.layers[i] = LayerBuiltFrom(i)

----------------------------------------------------------------------------
(* Claims about what building an NgLayer does to its arguments *)

\* the step is the construction of an NgLayer
BuildStep == l_call'.op = "NgLayer" /\ builds' = builds + 1

\* C20: constructing an NgLayer leaves the dict it was given as it was, and
\* constructing a second NgLayer from the same dict right after the first
\* gives a layer state equal to the first
C20_BuildLeavesDescription ==
    [][BuildStep =>
          /\ image_config' = image_config
          /\ (l_call.op = "NgLayer" /\ layer.alive) => layer' = layer]_vars

----------------------------------------------------------------------------
(* Claims about the output dimensions of tile transforms *)

\* a holds the items of b, last item first
ReverseOf(a, b) ==
    /\ Len(a) = Len(b)
    /\ \A k \in 1..Len(b) : a[k] = b[Len(b) + 1 - k]

\* key number j of the tile is a transform_matrix the NgLayer converts
ConvertedMatrix(tile, j) ==
    /\ tile[j][1] = "transform_matrix"
    /\ tile[j][2].kind \in {"dict", "list"}

\* the state part of C21: the transform of each resolved tile that was made
\* from the tile's transform_matrix
TransformsCarryReversed ==
    TilesResolved =>
        \A i \in 1..Len(r_in.tiles) :
            \A j \in 1..Len(r_in.tiles[i]) :
                (ConvertedMatrix(r_in.tiles[i], j)
                   /\ LastWriter(r_in.tiles[i], j)) =>
                    ReverseOf(DictGet(r_out.value.tiles[i], "transform").od,
                              shared_dimensions)

\* C21: the outputDimensions of every transform the NgLayer makes from a
\* tile's transform_matrix are the axis names and [magnitude, unit] pairs of
\* the output dimensions the NgLayer was given, last axis first, and
\* resolving the tiles leaves the dimensions given in the order they had
C21_OutputDimensionsReversed ==
    /\ []TransformsCarryReversed
    /\ [][shared_dimensions' = shared_dimensions]_vars

\* two tiles were resolved under dimensions z, y, x: the first with deltas,
\* the second with an explicit matrix; both transforms carry x, y, z
C21_Witness ==
    /\ TilesResolved
    /\ shared_dimensions = Dims_ZYX
    /\ Len(r_in.tiles) = 2
    /\ DictHas(r_in.tiles[1], "transform_matrix")
    /\ DictGet(r_in.tiles[1], "transform_matrix").kind = "dict"
    /\ DictHas(r_in.tiles[2], "transform_matrix")
    /\ DictGet(r_in.tiles[2], "transform_matrix").kind = "list"
    /\ ~DictHas(r_in.tiles[2], "transform")
    /\ \A i \in 1..2 :
          DictGet(r_out.value.tiles[i], "transform").od
            = << Dims_ZYX[3], Dims_ZYX[2], Dims_ZYX[1] >>

----------------------------------------------------------------------------
(* Claims about the values of the translation matrix *)

\* the entry of the last column, k rows above the last row
DeltaEntry(k) == m_result.value[m_args.n_rows - k][m_args.n_cols]

\* C22: for every integer delta of magnitude up to 65535, the entry that a
\* call with room for the deltas writes is the delta itself: not a rounded
\* value and not infinity
C22_DeltasStoredExactly ==
    (m_args.called /\ m_args.n_rows >= 4) =>
        /\ m_result.ok
        /\ DeltaEntry(0) = m_args.delta_x
        /\ DeltaEntry(1) = m_args.delta_y
        /\ DeltaEntry(2) = m_args.delta_z

----------------------------------------------------------------------------
(* Claims about repeated assignments to the layers of an NgState *)

\* the step assigns to layers a list of descriptions of type image or
\* annotation
ValidLayersAssignment ==
    /\ ng_call'.op = "layers"
    /\ ng_sets' = ng_sets + 1
    /\ ng_call'.arg.kind = "layers"
    /\ \A i \in 1..Len(ng_call'.arg.tiles) : ~BadlyTyped(ng_call'.arg.tiles[i])

\* C23: an assignment of b layer descriptions to the layers of an NgState
\* that holds a layers succeeds and leaves it holding a + b layers, the
\* first a being the ones it held, in the order they had
C23_LayersAccumulate ==
    [][ValidLayersAssignment =>
          /\ ng_call'.raised = "none"
          /\ Len(ng'.layers) = Len(ng.layers) + Len(ng_call'.arg.tiles)
          /\ SubSeq(ng'.layers, 1, Len(ng.layers)) = ng.layers]_vars

----------------------------------------------------------------------------
(* Claims about reading the channel of an NgLayer *)

\* C24: reading image_channel of a live NgLayer raises nothing and returns
\* the entry [c + 1, ""] that localDimensions holds for the channel axis,
\* the one the setter wrote
C24_ChannelReadBack ==
    l_call.op = "get image_channel" =>
        /\ l_call.raised = "none"
        /\ l_call.returned
             = << DictGet(LocalDimensionsItems(ChannelStored), <<"c", "'">>) >>

====
